---------------------------- MODULE Spec2Model ----------------------------
(*************************************************************************)
(* Model of scripts/measure/metrics.py: analyze_measurement and the      *)
(* helpers it calls (_compute_frame_stats, _compute_stim_results,        *)
(* _group_toggles, _freq_metrics, _windowed_jitter, _percentile).        *)
(*                                                                       *)
(* Numbers.  A Python float is modelled by the exact rational it stands  *)
(* for, a pair <<num, den>> in lowest terms with den > 0.  None is the   *)
(* empty tuple, so that an Optional[float] is <<>> or <<num, den>>.  The *)
(* square root taken by statistics.pstdev is exact when the variance is  *)
(* the square of a rational and is otherwise kept as the tagged surd     *)
(* <<num, den, "sqrt">>.  An Optional[bool] is <<>> or <<b>>.            *)
(* Stimulus ids are strings in the program; they are modelled by their   *)
(* rank in string order, which is all that sorted(key=stim_id) reads.    *)
(*************************************************************************)
EXTENDS Integers, Sequences, FiniteSets, TLC

VARIABLES
    measurement,   \* MeasurementData: meta, stims, frames, toggles
    warmup_s,      \* analyze_measurement argument
    window_s,      \* analyze_measurement argument
    epsilon,       \* analyze_measurement argument
    pc,            \* position inside analyze_measurement
    frame_stats,   \* FrameStats computed for the run
    grouped,       \* _group_toggles result, in dict insertion order
    gi,            \* number of grouped items already processed
    results,       \* the list `results` of _compute_stim_results
    fm,            \* locals of the running _freq_metrics call
    wj,            \* locals of the running _windowed_jitter call
    run_result,    \* the RunResult returned, None before the return
    pcall          \* a direct call of _percentile: values, percentile, result

vars == <<measurement, warmup_s, window_s, epsilon, pc, frame_stats,
          grouped, gi, results, fm, wj, run_result, pcall>>

-----------------------------------------------------------------------------
(* Bounds of the explored inputs. *)

MaxToggles == 3    \* toggles in an aggregator input
MaxFrames == 3     \* frame samples in a frame-statistics input
MaxEdges == 4      \* rising edges in an estimator input
MaxValues == 4     \* values in a direct call of _percentile

-----------------------------------------------------------------------------
(* Optional values and float arithmetic. *)

None == <<>>

Abs(n) == IF n < 0 THEN -n ELSE n

RECURSIVE GCD(_, _)
GCD(a, b) == IF b = 0 THEN a ELSE GCD(b, a % b)

Frac(n, d) ==
    LET g == GCD(Abs(n), Abs(d))
        s == IF d < 0 THEN -1 ELSE 1
    IN  <<(s * n) \div g, (s * d) \div g>>

R(n) == <<n, 1>>

RAdd(a, b) == Frac(a[1] * b[2] + b[1] * a[2], a[2] * b[2])
RSub(a, b) == Frac(a[1] * b[2] - b[1] * a[2], a[2] * b[2])
RMul(a, b) == Frac(a[1] * b[1], a[2] * b[2])
RDiv(a, b) == Frac(a[1] * b[2], a[2] * b[1])
RLt(a, b) == a[1] * b[2] < b[1] * a[2]
RLe(a, b) == a[1] * b[2] <= b[1] * a[2]
RAbs(a) == <<Abs(a[1]), a[2]>>

\* int(x): truncation towards zero
RInt(a) == IF a[1] >= 0 THEN a[1] \div a[2] ELSE -((-a[1]) \div a[2])

\* bool(x) of an Optional[float]: None and 0.0 are falsy
Truthy(x) == x # None /\ x[1] # 0

IsSquare(n) == \E r \in 0..n : r * r = n
ISqrt(n) == CHOOSE r \in 0..n : r * r = n

\* math.sqrt of a non-negative rational
RSqrt(q) ==
    IF IsSquare(q[1]) /\ IsSquare(q[2])
    THEN <<ISqrt(q[1]), ISqrt(q[2])>>
    ELSE <<q[1], q[2], "sqrt">>

-----------------------------------------------------------------------------
(* Sequences and the statistics module. *)

RECURSIVE RSum(_)
RSum(s) == IF s = <<>> THEN R(0) ELSE RAdd(Head(s), RSum(Tail(s)))

RECURSIVE RSumSq(_)
RSumSq(s) == IF s = <<>> THEN R(0) ELSE RAdd(RMul(Head(s), Head(s)), RSumSq(Tail(s)))

\* statistics.mean
mean(s) == RDiv(RSum(s), R(Len(s)))

\* statistics.pvariance: population variance, sum((x - mean)^2) / N
pvariance(s) ==
    RSub(RDiv(RSumSq(s), R(Len(s))), RMul(mean(s), mean(s)))

\* statistics.pstdev
pstdev(s) == RSqrt(pvariance(s))

\* statistics.mean of the per-window standard deviations: a rational when
\* every one of them is, otherwise the list kept under a tag
MeanStd(s) ==
    IF \A i \in 1..Len(s) : Len(s[i]) = 2
    THEN mean(s)
    ELSE <<s, Len(s), "mean">>

RECURSIVE Insert(_, _)
Insert(x, s) ==
    IF s = <<>> THEN <<x>>
    ELSE IF RLt(x, Head(s)) THEN <<x>> \o s
    ELSE <<Head(s)>> \o Insert(x, Tail(s))

\* sorted(values) for floats
RECURSIVE Sorted(_)
Sorted(s) == IF s = <<>> THEN <<>> ELSE Insert(s[Len(s)], Sorted(SubSeq(s, 1, Len(s) - 1)))

Min(a, b) == IF a < b THEN a ELSE b

ValueError == <<"ValueError">>

\* mutant: the values are not sorted
_percentile_unsorted(values, percentile) ==
    IF values = <<>> THEN ValueError
    ELSE IF ~(0 <= percentile /\ percentile <= 100) THEN ValueError
    ELSE LET sorted_vals == values
             n == Len(sorted_vals)
         IN  IF n = 1 THEN sorted_vals[1]
             ELSE LET rank == RMul(Frac(percentile, 100), R(n - 1))
                      lower_idx == RInt(rank)
                      upper_idx == Min(lower_idx + 1, n - 1)
                      weight == RSub(rank, R(lower_idx))
                  IN  RAdd(RMul(sorted_vals[lower_idx + 1], RSub(R(1), weight)),
                           RMul(sorted_vals[upper_idx + 1], weight))

_percentile(values, percentile) ==
    IF values = <<>> THEN ValueError
    ELSE IF ~(0 <= percentile /\ percentile <= 100) THEN ValueError
    ELSE LET sorted_vals == Sorted(values)
             n == Len(sorted_vals)
         IN  IF n = 1 THEN sorted_vals[1]
             ELSE LET rank == RMul(Frac(percentile, 100), R(n - 1))
                      lower_idx == RInt(rank)
                      upper_idx == Min(lower_idx + 1, n - 1)
                      weight == RSub(rank, R(lower_idx))
                  IN  RAdd(RMul(sorted_vals[lower_idx + 1], RSub(R(1), weight)),
                           RMul(sorted_vals[upper_idx + 1], weight))

-----------------------------------------------------------------------------
(* Frame statistics. *)

FrameStats(variance, p95, drop_ratio, dt_values) ==
    [variance |-> variance, p95 |-> p95, drop_ratio |-> drop_ratio,
     dt_values |-> dt_values]

\* warmup_ms = warmup_s * 1000.0
WarmupMs(w_s) == RMul(w_s, R(1000))

\* mutant: a sample exactly at the cutoff is dropped
RECURSIVE RetainedDtStrict(_, _)
RetainedDtStrict(frames, warmup_ms) ==
    IF frames = <<>> THEN <<>>
    ELSE (IF RLt(warmup_ms, Head(frames).t_ms) THEN <<Head(frames).dt_ms>> ELSE <<>>)
         \o RetainedDtStrict(Tail(frames), warmup_ms)

RECURSIVE RetainedDt(_, _)
RetainedDt(frames, warmup_ms) ==
    IF frames = <<>> THEN <<>>
    ELSE (IF RLe(warmup_ms, Head(frames).t_ms) THEN <<Head(frames).dt_ms>> ELSE <<>>)
         \o RetainedDt(Tail(frames), warmup_ms)

\* mutant: a delta equal to the threshold counts as a drop
RECURSIVE CountOverInclusive(_, _)
CountOverInclusive(dts, threshold) ==
    IF dts = <<>> THEN 0
    ELSE (IF RLe(threshold, Head(dts)) THEN 1 ELSE 0)
         + CountOverInclusive(Tail(dts), threshold)

RECURSIVE CountOver(_, _)
CountOver(dts, threshold) ==
    IF dts = <<>> THEN 0
    ELSE (IF RLt(threshold, Head(dts)) THEN 1 ELSE 0) + CountOver(Tail(dts), threshold)

DropThreshold(refresh_hz) == RMul(Frac(3, 2), RDiv(R(1000), refresh_hz))

DropRatio(dt_values, refresh_hz) ==
    IF Truthy(refresh_hz)
    THEN Frac(CountOver(dt_values, DropThreshold(refresh_hz)), Len(dt_values))
    ELSE None

\* mutant: a single sample has no variance
VarianceNoneForOne(dt_values) ==
    IF Len(dt_values) > 1 THEN pvariance(dt_values) ELSE None

Variance(dt_values) ==
    IF Len(dt_values) > 1 THEN pvariance(dt_values) ELSE R(0)

\* mutant: the test for an empty retained list is missing
_compute_frame_stats_unguarded(frames, w_s, refresh_hz) ==
    IF frames = <<>> THEN FrameStats(None, None, None, <<>>)
    ELSE LET dt_values == RetainedDt(frames, WarmupMs(w_s))
         IN  FrameStats(Variance(dt_values),
                        _percentile(dt_values, 95),
                        IF dt_values # <<>> THEN DropRatio(dt_values, refresh_hz)
                        ELSE None,
                        dt_values)

_compute_frame_stats(frames, w_s, refresh_hz) ==
    IF frames = <<>> THEN FrameStats(None, None, None, <<>>)
    ELSE LET dt_values == RetainedDt(frames, WarmupMs(w_s))
         IN  IF dt_values = <<>> THEN FrameStats(None, None, None, <<>>)
             ELSE FrameStats(Variance(dt_values),
                             _percentile(dt_values, 95),
                             DropRatio(dt_values, refresh_hz),
                             dt_values)

-----------------------------------------------------------------------------
(* Grouping of the toggles and the per-stimulus results. *)

GroupAppend(g, toggle) ==
    IF \E i \in 1..Len(g) : g[i].stim_id = toggle.stim_id
    THEN [i \in 1..Len(g) |->
            IF g[i].stim_id = toggle.stim_id
            THEN [g[i] EXCEPT !.toggles = Append(@, toggle)]
            ELSE g[i]]
    ELSE Append(g, [stim_id |-> toggle.stim_id, toggles |-> <<toggle>>])

\* mutant: the edge of a toggle is not looked at
QualifiesAnyEdge(toggle, warmup_ms) == ~RLt(toggle.t_ms, warmup_ms)

\* the two `continue` tests of _group_toggles
Qualifies(toggle, warmup_ms) ==
    /\ ~RLt(toggle.t_ms, warmup_ms)
    /\ toggle.edge = "rise"

RECURSIVE GroupFrom(_, _, _)
GroupFrom(g, toggles, warmup_ms) ==
    IF toggles = <<>> THEN g
    ELSE GroupFrom(IF Qualifies(Head(toggles), warmup_ms)
                   THEN GroupAppend(g, Head(toggles))
                   ELSE g,
                   Tail(toggles), warmup_ms)

\* a dict in insertion order: a sequence of [stim_id, toggles]
_group_toggles(toggles, w_s) == GroupFrom(<<>>, toggles, WarmupMs(w_s))

GroupedKeys(g) == {g[i].stim_id : i \in 1..Len(g)}

\* measurement.stims.get(stim_id), then stim_meta.f_cfg if stim_meta else None
FCfgOf(m, stim_id) ==
    IF stim_id \in DOMAIN m.stims THEN m.stims[stim_id].f_cfg ELSE None

\* mutant: a negative delta is kept by its absolute value
RECURSIVE ValidPairsAbs(_)
ValidPairsAbs(toggles) ==
    IF Len(toggles) < 2 THEN <<>>
    ELSE LET prev == toggles[1]
             curr == toggles[2]
             delta == RAbs(RSub(curr.t_ms, prev.t_ms))
         IN  (IF RLe(delta, R(0)) THEN <<>>
              ELSE <<[period |-> delta,
                      midpoint |-> RMul(RAdd(curr.t_ms, prev.t_ms), Frac(1, 2))]>>)
             \o ValidPairsAbs(Tail(toggles))

\* the (prev, curr) pairs of zip(toggles, toggles[1:]) with a positive delta
RECURSIVE ValidPairs(_)
ValidPairs(toggles) ==
    IF Len(toggles) < 2 THEN <<>>
    ELSE LET prev == toggles[1]
             curr == toggles[2]
             delta == RSub(curr.t_ms, prev.t_ms)
         IN  (IF RLe(delta, R(0)) THEN <<>>
              ELSE <<[period |-> delta,
                      midpoint |-> RMul(RAdd(curr.t_ms, prev.t_ms), Frac(1, 2))]>>)
             \o ValidPairs(Tail(toggles))

PeriodsMs(toggles) ==
    LET vp == ValidPairs(toggles) IN [i \in 1..Len(vp) |-> vp[i].period]

Midpoints(toggles) ==
    LET vp == ValidPairs(toggles) IN [i \in 1..Len(vp) |-> vp[i].midpoint]

FMeas(periods_ms) ==
    LET mean_period == mean(periods_ms)
    IN  IF Truthy(mean_period) THEN RDiv(R(1000), mean_period) ELSE None

AbsErr(f_meas, f_cfg) ==
    IF f_meas # None /\ f_cfg # None THEN RAbs(RSub(f_meas, f_cfg)) ELSE None

RECURSIVE Freqs(_)
Freqs(periods_ms) ==
    IF periods_ms = <<>> THEN <<>>
    ELSE (IF RLt(R(0), Head(periods_ms))
          THEN <<RDiv(R(1000), Head(periods_ms))>> ELSE <<>>)
         \o Freqs(Tail(periods_ms))

\* mutant: the comparison with epsilon is not strict
UsableInclusive(abs_err, eps) ==
    IF abs_err # None THEN <<RLe(abs_err, eps)>> ELSE None

Usable(abs_err, eps) ==
    IF abs_err # None THEN <<RLt(abs_err, eps)>> ELSE None

StimResult(m, fs, stim_id, f_cfg, f_meas, abs_err, jitter_std, usable) ==
    [source_path |-> m.meta.source_path,
     stim_id |-> stim_id,
     f_cfg |-> f_cfg,
     f_meas |-> f_meas,
     abs_err |-> abs_err,
     jitter_std |-> jitter_std,
     frame_variance |-> fs.variance,
     frame_p95 |-> fs.p95,
     drop_ratio |-> fs.drop_ratio,
     usable |-> usable,
     browser |-> m.meta.browser,
     refresh_hz |-> m.meta.refresh_hz,
     mode |-> m.meta.mode,
     date |-> m.meta.date]

\* the result appended by the loop over grouped.items()
ComputedResult(m, fs, stim_id, f_meas, abs_err, jitter_std, eps) ==
    StimResult(m, fs, stim_id, FCfgOf(m, stim_id), f_meas, abs_err, jitter_std,
               Usable(abs_err, eps))

\* mutant: a placeholder is built without the frame statistics
PlaceholderNoFrameStats(m, fs, stim_id) ==
    StimResult(m, FrameStats(None, None, None, <<>>), stim_id, FCfgOf(m, stim_id),
               None, None, None, None)

Placeholder(m, fs, stim_id) ==
    StimResult(m, fs, stim_id, FCfgOf(m, stim_id), None, None, None, None)

\* mutant: the ids that already have a computed result are not removed
MissingIdsAllConfigured(m, g) == DOMAIN m.stims

MissingIds(m, g) == DOMAIN m.stims \ GroupedKeys(g)

\* sorted(missing_ids)
RECURSIVE SortedIds(_)
SortedIds(S) ==
    IF S = {} THEN <<>>
    ELSE LET lo == CHOOSE x \in S : \A y \in S : x <= y
         IN  <<lo>> \o SortedIds(S \ {lo})

Placeholders(m, fs, g) ==
    LET ids == SortedIds(MissingIds(m, g))
    IN  [i \in 1..Len(ids) |-> Placeholder(m, fs, ids[i])]

RECURSIVE InsertByStimId(_, _)
InsertByStimId(x, s) ==
    IF s = <<>> THEN <<x>>
    ELSE IF x.stim_id < Head(s).stim_id THEN <<x>> \o s
    ELSE <<Head(s)>> \o InsertByStimId(x, Tail(s))

\* mutant: the list is returned in the order it was built
SortedByStimIdOmitted(s) == s

\* sorted(results, key=lambda item: item.stim_id), a stable sort
RECURSIVE SortedByStimId(_)
SortedByStimId(s) ==
    IF s = <<>> THEN <<>>
    ELSE InsertByStimId(s[Len(s)], SortedByStimId(SubSeq(s, 1, Len(s) - 1)))

RunResult(m, fs, stims) == [measurement |-> m, frame_stats |-> fs, stims |-> stims]

\* mutant: the comparison with the window length is reversed
WhileCondReversed(left, right, midpoints_ms, window_ms) ==
    /\ left < right
    /\ RLt(RSub(midpoints_ms[right + 1], midpoints_ms[left + 1]), window_ms)

\* the while condition of _windowed_jitter (0-based indices, as in the code)
WhileCond(left, right, midpoints_ms, window_ms) ==
    /\ left < right
    /\ RLt(window_ms, RSub(midpoints_ms[right + 1], midpoints_ms[left + 1]))

\* freqs[left : right + 1]
WindowValues(freqs, left, right) == SubSeq(freqs, left + 1, right + 1)

\* mutant: a window of one sample contributes too
WindowStdsOfOne(window_stds, window_values) ==
    IF Len(window_values) >= 1
    THEN Append(window_stds, pstdev(window_values))
    ELSE window_stds

WindowStds(window_stds, window_values) ==
    IF Len(window_values) >= 2
    THEN Append(window_stds, pstdev(window_values))
    ELSE window_stds

JitterResult(window_stds) ==
    IF window_stds # <<>> THEN MeanStd(window_stds) ELSE None

-----------------------------------------------------------------------------
(* The inputs explored. *)

Edges == {"rise", "fall"}
StimIds == {1, 2}

MeasurementMeta(refresh_hz) ==
    [source_path |-> "measurement.json", date |-> None, commit |-> None,
     browser |-> None, os |-> None, refresh_hz |-> refresh_hz,
     mode |-> None, resolution |-> None]

StimMetadata(stim_id, f_cfg) == [stim_id |-> stim_id, wave |-> None, f_cfg |-> f_cfg]

FrameSample(t_ms, dt_ms) == [t_ms |-> t_ms, dt_ms |-> dt_ms]

ToggleEvent(stim_id, t_ms, edge) == [stim_id |-> stim_id, t_ms |-> t_ms, edge |-> edge]

MeasurementData(meta, stims, frames, toggles) ==
    [meta |-> meta, stims |-> stims, frames |-> frames, toggles |-> toggles]

\* configuration maps: any subset of the ids, each with f_cfg 10 Hz or None
StimConfigs ==
    UNION {{[id \in D |-> StimMetadata(id, f[id])] : f \in [D -> {None, R(10)}]} :
           D \in SUBSET StimIds}

\* toggles recorded 100 ms apart, of any stimulus and edge
AggregatorToggles ==
    UNION {{[i \in 1..n |-> ToggleEvent(c[i][1], R(100 * i), c[i][2])] :
            c \in [1..n -> StimIds \X Edges]} : n \in 0..MaxToggles}

\* frame samples before or at a 100 ms cutoff; 25 ms is the drop threshold at 60 Hz
FrameInputs ==
    UNION {[1..n -> {FrameSample(R(t), R(dt)) : t \in {0, 100}, dt \in {16, 25, 40}}] :
           n \in 0..MaxFrames}

RefreshRates == {None, R(0), R(-60), R(60)}

\* rising edges of one stimulus, timestamps in any order
EstimatorToggles ==
    UNION {{[i \in 1..n |-> ToggleEvent(1, R(ts[i]), "rise")] :
            ts \in [1..n -> {0, 100, 200, 300, 400}]} : n \in 0..MaxEdges}

TwoFrames == <<FrameSample(R(0), R(16)), FrameSample(R(200), R(40))>>

Idle ==
    /\ pc = "frame_stats"
    /\ pcall = None
    /\ frame_stats = FrameStats(None, None, None, <<>>)
    /\ grouped = <<>>
    /\ gi = 0
    /\ results = <<>>
    /\ fm = [stim_id |-> 0, periods_ms |-> <<>>, midpoints_ms |-> <<>>,
             f_meas |-> None, abs_err |-> None]
    /\ wj = [freqs |-> <<>>, window_ms |-> R(0), left |-> 0, right |-> 0,
             window_stds |-> <<>>]
    /\ run_result = None

\* whole runs: configuration and toggles vary
InitAggregator ==
    /\ \E stims \in StimConfigs, toggles \in AggregatorToggles :
         measurement = MeasurementData(MeasurementMeta(R(60)), stims, TwoFrames, toggles)
    /\ warmup_s \in {R(0), Frac(1, 5)}
    /\ window_s = R(1)
    /\ epsilon \in {Frac(1, 5), R(5)}
    /\ Idle

\* frame statistics: frames, refresh rate and warm-up vary
InitFrames ==
    /\ \E frames \in FrameInputs, refresh_hz \in RefreshRates :
         measurement = MeasurementData(MeasurementMeta(refresh_hz),
                                       (1 :> StimMetadata(1, R(10))), frames, <<>>)
    /\ warmup_s \in {R(0), Frac(1, 10), Frac(1, 5)}
    /\ window_s = R(1)
    /\ epsilon = Frac(1, 5)
    /\ Idle

\* the frequency estimator: edge timestamps and window vary
InitEstimator ==
    /\ \E toggles \in EstimatorToggles :
         measurement = MeasurementData(MeasurementMeta(None),
                                       (1 :> StimMetadata(1, R(10))), <<>>, toggles)
    /\ warmup_s = R(0)
    /\ window_s \in {R(0), Frac(1, 10), Frac(1, 5)}
    /\ epsilon = Frac(1, 5)
    /\ Idle

Init == InitAggregator \/ InitFrames \/ InitEstimator

-----------------------------------------------------------------------------
(* analyze_measurement, step by step. *)

\* a ValueError raised by _percentile is caught nowhere: it ends the call
ComputeFrameStats ==
    /\ pc = "frame_stats"
    /\ LET fs == _compute_frame_stats(measurement.frames, warmup_s,
                                      measurement.meta.refresh_hz)
       IN  IF fs.p95 = ValueError
           THEN /\ pc' = "raised"
                /\ UNCHANGED frame_stats
           ELSE /\ frame_stats' = fs
                /\ pc' = "group"
    /\ UNCHANGED <<pcall, measurement, warmup_s, window_s, epsilon, grouped, gi,
                   results, fm, wj, run_result>>

\* mutant: the list of results outlives the call that built it
GroupTogglesKeepsResults ==
    /\ pc = "group"
    /\ grouped' = _group_toggles(measurement.toggles, warmup_s)
    /\ gi' = 0
    /\ pc' = "stims"
    /\ UNCHANGED <<pcall, measurement, warmup_s, window_s, epsilon, frame_stats,
                   results, fm, wj, run_result>>

GroupToggles ==
    /\ pc = "group"
    /\ grouped' = _group_toggles(measurement.toggles, warmup_s)
    /\ results' = <<>>
    /\ gi' = 0
    /\ pc' = "stims"
    /\ UNCHANGED <<pcall, measurement, warmup_s, window_s, epsilon, frame_stats,
                   fm, wj, run_result>>

\* the grouped item the loop of _compute_stim_results is at
Item == grouped[gi + 1]

AppendResult(f_meas, abs_err, jitter_std) ==
    /\ results' = Append(results,
                         ComputedResult(measurement, frame_stats, Item.stim_id,
                                        f_meas, abs_err, jitter_std, epsilon))
    /\ gi' = gi + 1
    /\ pc' = "stims"

\* _freq_metrics returns (None, None, None): fewer than 2 toggles, or no period
FreqMetricsNone ==
    /\ pc = "stims" /\ gi < Len(grouped)
    /\ Len(Item.toggles) < 2 \/ PeriodsMs(Item.toggles) = <<>>
    /\ AppendResult(None, None, None)
    /\ UNCHANGED <<pcall, measurement, warmup_s, window_s, epsilon, frame_stats,
                   grouped, fm, wj, run_result>>

\* _windowed_jitter returns None before its loop
FreqMetricsJitterNone ==
    /\ pc = "stims" /\ gi < Len(grouped)
    /\ Len(Item.toggles) >= 2
    /\ LET periods_ms == PeriodsMs(Item.toggles)
           midpoints_ms == Midpoints(Item.toggles)
           f_meas == FMeas(periods_ms)
       IN  /\ periods_ms # <<>>
           /\ midpoints_ms = <<>> \/ Len(Freqs(periods_ms)) < 2
           /\ AppendResult(f_meas, AbsErr(f_meas, FCfgOf(measurement, Item.stim_id)), None)
    /\ UNCHANGED <<pcall, measurement, warmup_s, window_s, epsilon, frame_stats,
                   grouped, fm, wj, run_result>>

\* _freq_metrics reaches the loop of _windowed_jitter
FreqMetricsJitter ==
    /\ pc = "stims" /\ gi < Len(grouped)
    /\ Len(Item.toggles) >= 2
    /\ LET periods_ms == PeriodsMs(Item.toggles)
           midpoints_ms == Midpoints(Item.toggles)
           f_meas == FMeas(periods_ms)
       IN  /\ periods_ms # <<>>
           /\ midpoints_ms # <<>> /\ Len(Freqs(periods_ms)) >= 2
           /\ fm' = [stim_id |-> Item.stim_id, periods_ms |-> periods_ms,
                     midpoints_ms |-> midpoints_ms, f_meas |-> f_meas,
                     abs_err |-> AbsErr(f_meas, FCfgOf(measurement, Item.stim_id))]
           /\ wj' = [freqs |-> Freqs(periods_ms),
                     window_ms |-> RMul(window_s, R(1000)),
                     left |-> 0, right |-> 0, window_stds |-> <<>>]
    /\ pc' = "jitter_while"
    /\ UNCHANGED <<pcall, measurement, warmup_s, window_s, epsilon, frame_stats,
                   grouped, gi, results, run_result>>

\* one iteration of the while loop: left += 1
JitterWhile ==
    /\ pc = "jitter_while"
    /\ WhileCond(wj.left, wj.right, fm.midpoints_ms, wj.window_ms)
    /\ wj' = [wj EXCEPT !.left = @ + 1]
    /\ UNCHANGED <<pcall, measurement, warmup_s, window_s, epsilon, pc, frame_stats,
                   grouped, gi, results, fm, run_result>>

\* the while condition is false
JitterWhileExit ==
    /\ pc = "jitter_while"
    /\ ~WhileCond(wj.left, wj.right, fm.midpoints_ms, wj.window_ms)
    /\ pc' = "jitter_body"
    /\ UNCHANGED <<pcall, measurement, warmup_s, window_s, epsilon, frame_stats,
                   grouped, gi, results, fm, wj, run_result>>

\* the rest of the for body, and the step of `right` to the next index
JitterBody ==
    /\ pc = "jitter_body"
    /\ LET stds == WindowStds(wj.window_stds,
                              WindowValues(wj.freqs, wj.left, wj.right))
       IN  IF wj.right + 1 < Len(wj.freqs)
           THEN /\ wj' = [wj EXCEPT !.window_stds = stds, !.right = @ + 1]
                /\ pc' = "jitter_while"
           ELSE /\ wj' = [wj EXCEPT !.window_stds = stds]
                /\ pc' = "jitter_return"
    /\ UNCHANGED <<pcall, measurement, warmup_s, window_s, epsilon, frame_stats,
                   grouped, gi, results, fm, run_result>>

\* _windowed_jitter and _freq_metrics return; the result is appended
JitterReturn ==
    /\ pc = "jitter_return"
    /\ AppendResult(fm.f_meas, fm.abs_err, JitterResult(wj.window_stds))
    /\ UNCHANGED <<pcall, measurement, warmup_s, window_s, epsilon, frame_stats,
                   grouped, fm, wj, run_result>>

\* placeholders for the missing ids, the sort, and the RunResult
ReturnRunResult ==
    /\ pc = "stims" /\ gi = Len(grouped)
    /\ results' = results \o Placeholders(measurement, frame_stats, grouped)
    /\ run_result' = RunResult(measurement, frame_stats, SortedByStimId(results'))
    /\ pc' = "done"
    /\ UNCHANGED <<pcall, measurement, warmup_s, window_s, epsilon, frame_stats,
                   grouped, gi, fm, wj>>

\* analyze_measurement is called again with the same arguments; the caller
\* still holds the RunResult of the first call
Rerun ==
    /\ pc = "done"
    /\ pc' = "frame_stats"
    /\ UNCHANGED <<pcall, measurement, warmup_s, window_s, epsilon, frame_stats,
                   grouped, gi, results, fm, wj, run_result>>

Next ==
    \/ ComputeFrameStats
    \/ GroupToggles
    \/ FreqMetricsNone
    \/ FreqMetricsJitterNone
    \/ FreqMetricsJitter
    \/ JitterWhile
    \/ JitterWhileExit
    \/ JitterBody
    \/ JitterReturn
    \/ ReturnRunResult
    \/ Rerun

Spec == Init /\ [][Next]_vars

-----------------------------------------------------------------------------
(* _percentile called on its own. *)

PercentileValues ==
    UNION {[1..n -> {R(1), R(2), R(3), R(4)}] : n \in 0..MaxValues}

\* in range, with whole and fractional ranks, and out of range
Percentiles == {-1, 0, 10, 25, 50, 75, 95, 100, 101}

InitPercentile ==
    /\ \E values \in PercentileValues, percentile \in Percentiles :
         pcall = [values |-> values, percentile |-> percentile, result |-> None]
    /\ pc = "percentile"
    /\ measurement = MeasurementData(MeasurementMeta(None), <<>>, <<>>, <<>>)
    /\ warmup_s = R(2)
    /\ window_s = R(1)
    /\ epsilon = Frac(1, 5)
    /\ frame_stats = FrameStats(None, None, None, <<>>)
    /\ grouped = <<>>
    /\ gi = 0
    /\ results = <<>>
    /\ fm = [stim_id |-> 0, periods_ms |-> <<>>, midpoints_ms |-> <<>>,
             f_meas |-> None, abs_err |-> None]
    /\ wj = [freqs |-> <<>>, window_ms |-> R(0), left |-> 0, right |-> 0,
             window_stds |-> <<>>]
    /\ run_result = None

CallPercentile ==
    /\ pc = "percentile"
    /\ pcall' = [pcall EXCEPT !.result = _percentile(pcall.values, pcall.percentile)]
    /\ pc' = "percentile_done"
    /\ UNCHANGED <<measurement, warmup_s, window_s, epsilon, frame_stats,
                   grouped, gi, results, fm, wj, run_result>>

NextPercentile == CallPercentile

SpecPercentile == InitPercentile /\ [][NextPercentile]_vars

-----------------------------------------------------------------------------
(* What the properties below read. *)

Stims == run_result.stims
Toggles == measurement.toggles
Frames == measurement.frames
RefreshHz == measurement.meta.refresh_hz
CutoffMs == RMul(warmup_s, R(1000))

\* rising edges of stimulus id at or after the warm-up cutoff, in input order
QualifyingEdges(id) ==
    SelectSeq(Toggles, LAMBDA t : t.stim_id = id /\ t.edge = "rise"
                                  /\ RLe(CutoffMs, t.t_ms))

\* indices of the frame samples at or after the warm-up cutoff
RetainedIdx == {i \in 1..Len(Frames) : RLe(CutoffMs, Frames[i].t_ms)}

FrameStatsDone == pc # "frame_stats"

SentinelStats == [variance |-> None, p95 |-> None, drop_ratio |-> None,
                  dt_values |-> <<>>]

\* every result built so far, and at the end the returned ones
AllResults ==
    {results[i] : i \in 1..Len(results)}
        \cup (IF pc = "done" THEN {Stims[i] : i \in 1..Len(Stims)} ELSE {})

\* C1: the returned list holds exactly one StimResult for every configured
\* stim_id, whatever the toggles
C1_OneResultPerConfiguredStim ==
    pc = "done" =>
        \A id \in DOMAIN measurement.stims :
            Cardinality({i \in 1..Len(Stims) : Stims[i].stim_id = id}) = 1

\* two configured stimuli: one with several qualifying edges, one whose
\* toggles are all filtered out
C1_Witness ==
    /\ pc = "done"
    /\ DOMAIN measurement.stims = {1, 2}
    /\ Len(QualifyingEdges(1)) >= 2
    /\ QualifyingEdges(2) = <<>>
    /\ \E i \in 1..Len(Toggles) : Toggles[i].stim_id = 2

\* C2: the returned list is in ascending stim_id order
C2_SortedByStimId ==
    pc = "done" =>
        \A i \in 1..(Len(Stims) - 1) : Stims[i].stim_id <= Stims[i + 1].stim_id

\* a computed result for stimulus 2 was built before the placeholder of 1
C2_Witness ==
    /\ pc = "done"
    /\ Len(grouped) = 1
    /\ Len(results) = 2
    /\ results[1].stim_id = 2
    /\ results[2].stim_id = 1

\* C3: usable is None exactly when abs_err is None (f_meas missing, no
\* configured frequency, or stimulus not configured), and otherwise is the
\* strict comparison abs_err < epsilon
C3_UsableTriState ==
    \A r \in AllResults :
        /\ (r.usable = None) <=> (r.abs_err = None)
        /\ r.abs_err # None => r.usable = <<RLt(r.abs_err, epsilon)>>
        /\ (r.abs_err = None) <=> (r.f_meas = None \/ r.f_cfg = None)
        /\ (r.f_cfg = None) <=>
              \/ r.stim_id \notin DOMAIN measurement.stims
              \/ measurement.stims[r.stim_id].f_cfg = None

\* a result whose abs_err equals epsilon, and is not usable
C3_Witness ==
    \E r \in AllResults : r.abs_err = epsilon /\ r.usable = <<FALSE>>

\* C4: a stimulus with zero or one qualifying rising edge gets None for
\* f_meas, abs_err, jitter_std and usable, and the run's frame statistics
C4_SparseStimKeepsFrameStats ==
    pc = "done" =>
        \A i \in 1..Len(Stims) :
            Len(QualifyingEdges(Stims[i].stim_id)) <= 1 =>
                /\ Stims[i].f_meas = None
                /\ Stims[i].abs_err = None
                /\ Stims[i].jitter_std = None
                /\ Stims[i].usable = None
                /\ Stims[i].frame_variance = run_result.frame_stats.variance
                /\ Stims[i].frame_p95 = run_result.frame_stats.p95
                /\ Stims[i].drop_ratio = run_result.frame_stats.drop_ratio

\* one stimulus with no qualifying edge and one with a single edge, in a run
\* whose frame statistics are known
C4_Witness ==
    /\ pc = "done"
    /\ run_result.frame_stats.variance # None
    /\ run_result.frame_stats.drop_ratio # None
    /\ \E i, j \in 1..Len(Stims) :
          /\ Len(QualifyingEdges(Stims[i].stim_id)) = 0
          /\ Len(QualifyingEdges(Stims[j].stim_id)) = 1

\* C5: the retained deltas are those of the samples with t_ms >= warmup_s*1000,
\* in order; when none is retained the statistics are the no-data sentinel
C5_RetainedAndSentinel ==
    FrameStatsDone =>
        /\ Len(frame_stats.dt_values) = Cardinality(RetainedIdx)
        /\ frame_stats.dt_values =
              LET kept == SelectSeq(Frames, LAMBDA f : RLe(CutoffMs, f.t_ms))
              IN  [i \in 1..Len(kept) |-> kept[i].dt_ms]
        /\ RetainedIdx = {} => frame_stats = SentinelStats

\* samples exist, all before the cutoff, and the refresh rate is known
C5_Witness ==
    /\ FrameStatsDone
    /\ Len(Frames) >= 2
    /\ RetainedIdx = {}
    /\ RefreshHz = R(60)
    /\ frame_stats = SentinelStats

\* C6: one retained sample gives variance 0.0 and p95 equal to its delta;
\* the variance is never None when a sample is retained
C6_SingleSampleVarianceZero ==
    FrameStatsDone =>
        /\ RetainedIdx # {} => frame_stats.variance # None
        /\ \A i \in RetainedIdx :
              RetainedIdx = {i} =>
                  /\ frame_stats.variance = R(0)
                  /\ frame_stats.p95 = Frames[i].dt_ms

\* several samples, exactly one of them retained
C6_Witness ==
    /\ FrameStatsDone
    /\ Len(Frames) >= 2
    /\ Cardinality(RetainedIdx) = 1
    /\ frame_stats.variance = R(0)

\* retained deltas strictly above 1.5 * (1000 / refresh_hz)
DropIdx == {i \in RetainedIdx :
              RLt(RMul(Frac(3, 2), RDiv(R(1000), RefreshHz)), Frames[i].dt_ms)}

DropRatioAsSpecified ==
    /\ frame_stats.drop_ratio # None
    /\ RLe(R(0), frame_stats.drop_ratio)
    /\ RLe(frame_stats.drop_ratio, R(1))
    /\ frame_stats.drop_ratio = Frac(Cardinality(DropIdx), Cardinality(RetainedIdx))

\* C7 as stated: with a retained sample, drop_ratio is None when refresh_hz is
\* unspecified and otherwise the share of retained deltas above the threshold
C7_Original ==
    (FrameStatsDone /\ RetainedIdx # {}) =>
        IF RefreshHz = None
        THEN frame_stats.drop_ratio = None
        ELSE DropRatioAsSpecified

\* C7 amended: drop_ratio is None when refresh_hz is unspecified or zero, and
\* otherwise the share, in [0,1], of retained deltas strictly above the
\* threshold
C7_DropRatio ==
    (FrameStatsDone /\ RetainedIdx # {}) =>
        IF RefreshHz = None \/ RefreshHz = R(0)
        THEN frame_stats.drop_ratio = None
        ELSE DropRatioAsSpecified

\* at 60 Hz, three retained deltas: one above 25 ms, one equal to it
C7_Witness ==
    /\ FrameStatsDone
    /\ RefreshHz = R(60)
    /\ Cardinality(RetainedIdx) = 3
    /\ \E i \in RetainedIdx : Frames[i].dt_ms = R(25)
    /\ frame_stats.drop_ratio = Frac(1, 3)

\* C8: drop_ratio is None whenever refresh_hz is None, zero or negative
C8_NoDropRatioUnlessPositive ==
    (FrameStatsDone /\ (RefreshHz = None \/ RLe(RefreshHz, R(0)))) =>
        frame_stats.drop_ratio = None

InJitter == pc \in {"jitter_while", "jitter_body", "jitter_return"}

\* C9: after the while loop left <= right and the window spans at most
\* window_ms; left and right never move back; only a window of at least two
\* samples adds a standard deviation
C9_SlidingWindow ==
    /\ [](pc = "jitter_body" =>
            /\ RLe(R(0), wj.window_ms)
            /\ wj.left <= wj.right
            /\ wj.right < Len(wj.freqs)
            /\ RLe(RSub(fm.midpoints_ms[wj.right + 1], fm.midpoints_ms[wj.left + 1]),
                   wj.window_ms))
    /\ [][(InJitter /\ InJitter') =>
            /\ wj'.left >= wj.left
            /\ wj'.right >= wj.right]_vars
    /\ [][(InJitter /\ Len(wj'.window_stds) # Len(wj.window_stds)) =>
            /\ pc = "jitter_body"
            /\ Len(wj'.window_stds) = Len(wj.window_stds) + 1
            /\ wj.right - wj.left + 1 >= 2]_vars

\* midpoints out of order (a pair was discarded between them), second step
C9_Witness ==
    /\ pc = "jitter_body"
    /\ wj.right = 1
    /\ RLt(fm.midpoints_ms[2], fm.midpoints_ms[1])

\* the edges q are at least two and every consecutive period is the same
\* positive constant
Periodic(q) ==
    /\ Len(q) >= 2
    /\ RLt(R(0), RSub(q[2].t_ms, q[1].t_ms))
    /\ \A i \in 1..(Len(q) - 1) :
          RSub(q[i + 1].t_ms, q[i].t_ms) = RSub(q[2].t_ms, q[1].t_ms)

\* C10 as stated: a perfectly periodic sequence gives jitter_std = 0.0
C10_Original ==
    pc = "done" =>
        \A i \in 1..Len(Stims) :
            Periodic(QualifyingEdges(Stims[i].stim_id)) => Stims[i].jitter_std = R(0)

\* C10 amended: a perfectly periodic sequence gives jitter_std = 0.0 when it
\* has at least 3 edges and its period is at most window_s*1000, and None
\* otherwise (fewer than 3 edges, or a period longer than the window)
C10_PeriodicJitter ==
    pc = "done" =>
        \A i \in 1..Len(Stims) :
            LET q == QualifyingEdges(Stims[i].stim_id)
            IN  (Len(q) < 2 \/ Periodic(q)) =>
                    Stims[i].jitter_std =
                        IF /\ Len(q) >= 3
                           /\ RLe(RSub(q[2].t_ms, q[1].t_ms), RMul(window_s, R(1000)))
                        THEN R(0)
                        ELSE None

\* four periodic edges, a window the left index had to shrink, jitter 0.0
C10_Witness ==
    /\ pc = "done"
    /\ Len(Stims) = 1
    /\ Len(QualifyingEdges(1)) = 4
    /\ Periodic(QualifyingEdges(1))
    /\ wj.left > 0
    /\ Stims[1].jitter_std = R(0)

-----------------------------------------------------------------------------
(* The frequency estimator and its input. *)

\* the period between edge i and edge i + 1 of q
DeltaAt(q, i) == RSub(q[i + 1].t_ms, q[i].t_ms)

\* the consecutive pairs of q whose period is strictly positive
PositivePairs(q) == {i \in 1..(Len(q) - 1) : RLt(R(0), DeltaAt(q, i))}

RECURSIVE SumPositive(_, _)
SumPositive(q, i) ==
    IF i = 0 THEN R(0)
    ELSE RAdd(IF i \in PositivePairs(q) THEN DeltaAt(q, i) ELSE R(0),
              SumPositive(q, i - 1))

\* 1000 divided by the mean of the strictly positive periods of q
FrequencyOfPositive(q) ==
    RDiv(R(1000), RDiv(SumPositive(q, Len(q) - 1), R(Cardinality(PositivePairs(q)))))

\* the positive pairs of q in order, as indices
RECURSIVE PositiveSeq(_, _)
PositiveSeq(q, i) ==
    IF i = 0 THEN <<>>
    ELSE PositiveSeq(q, i - 1) \o (IF i \in PositivePairs(q) THEN <<i>> ELSE <<>>)

\* C11: every pair of consecutive rising edges with a zero or negative period
\* is dropped on its own: f_meas is 1000 over the mean of exactly the positive
\* periods, the jitter samples are exactly their frequencies, and with no
\* positive period f_meas, abs_err and jitter_std are all None
C11_NonPositivePeriodsDiscarded ==
    /\ \A k \in 1..Len(results) :
          k <= Len(grouped) =>
              LET q == QualifyingEdges(grouped[k].stim_id)
              IN  IF PositivePairs(q) = {}
                  THEN /\ results[k].f_meas = None
                       /\ results[k].abs_err = None
                       /\ results[k].jitter_std = None
                  ELSE results[k].f_meas = FrequencyOfPositive(q)
    /\ InJitter =>
          LET q == QualifyingEdges(fm.stim_id)
              idx == PositiveSeq(q, Len(q) - 1)
          IN  /\ fm.periods_ms = [j \in 1..Len(idx) |-> DeltaAt(q, idx[j])]
              /\ wj.freqs = [j \in 1..Len(idx) |-> RDiv(R(1000), DeltaAt(q, idx[j]))]
              /\ Len(fm.midpoints_ms) = Len(idx)
              /\ fm.f_meas = FrequencyOfPositive(q)

\* four edges whose middle pair goes back in time: two periods of 100 ms
\* remain and f_meas is 10 Hz
C11_Witness ==
    /\ pc = "done"
    /\ Len(QualifyingEdges(1)) = 4
    /\ PositivePairs(QualifyingEdges(1)) = {1, 3}
    /\ Len(Stims) = 1
    /\ Stims[1].f_meas = R(10)
    /\ Stims[1].jitter_std = R(0)

GroupingDone == pc \notin {"frame_stats", "group"}

\* C14: the toggles handed to the estimator for a stimulus are exactly its
\* rising edges at or after the warm-up cutoff, in input order; a configured
\* stimulus with no such edge gets a placeholder, not a computed result
C14_EstimatorInput ==
    /\ GroupingDone =>
          /\ \A k \in 1..Len(grouped) :
                /\ grouped[k].toggles = QualifyingEdges(grouped[k].stim_id)
                /\ grouped[k].toggles # <<>>
                /\ \A j \in 1..Len(grouped) :
                      grouped[j].stim_id = grouped[k].stim_id => j = k
          /\ \A i \in 1..Len(Toggles) :
                QualifyingEdges(Toggles[i].stim_id) # <<>> =>
                    Toggles[i].stim_id \in GroupedKeys(grouped)
    /\ InJitter =>
          /\ fm.stim_id = Item.stim_id
          /\ fm.periods_ms = PeriodsMs(QualifyingEdges(fm.stim_id))
    /\ pc = "done" =>
          /\ Len(results) >= Len(grouped)
          /\ \A k \in 1..Len(grouped) : results[k].stim_id = grouped[k].stim_id
          /\ \A id \in DOMAIN measurement.stims :
                QualifyingEdges(id) = <<>> =>
                    /\ \A k \in 1..Len(grouped) : results[k].stim_id # id
                    /\ \E k \in (Len(grouped) + 1)..Len(results) :
                          /\ results[k].stim_id = id
                          /\ results[k].f_meas = None
                          /\ results[k].jitter_std = None

\* stimulus 1 has a falling edge after the cutoff and one qualifying edge;
\* configured stimulus 2 has only a rising edge before the cutoff
C14_Witness ==
    /\ pc = "done"
    /\ 2 \in DOMAIN measurement.stims
    /\ QualifyingEdges(2) = <<>>
    /\ \E i \in 1..Len(Toggles) :
          /\ Toggles[i].stim_id = 2
          /\ Toggles[i].edge = "rise"
          /\ RLt(Toggles[i].t_ms, CutoffMs)
    /\ \E i \in 1..Len(Toggles) :
          /\ Toggles[i].stim_id = 1
          /\ Toggles[i].edge = "fall"
          /\ RLe(CutoffMs, Toggles[i].t_ms)
    /\ Len(QualifyingEdges(1)) = 1

\* C12: no run ends in an exception, whatever is missing from the data:
\* _percentile, which raises on an empty list or a percentile outside
\* [0,100], is reached only with the non-empty retained deltas and 95, the
\* indices of the jitter loop stay inside its lists, and what is missing is
\* None in the RunResult
C12_NoExceptionOnSparseData ==
    /\ pc # "raised"
    /\ _percentile(<<>>, 95) = ValueError
    /\ _percentile(<<R(16)>>, 101) = ValueError
    /\ _percentile(<<R(16)>>, -1) = ValueError
    /\ FrameStatsDone =>
          /\ frame_stats.p95 # ValueError
          /\ (frame_stats.p95 = None) <=> (RetainedIdx = {})
          /\ RetainedIdx # {} =>
                /\ frame_stats.dt_values # <<>>
                /\ frame_stats.p95 = _percentile(frame_stats.dt_values, 95)
    /\ pc \in {"frame_stats", "group", "stims", "jitter_while", "jitter_body",
               "jitter_return", "done"}
    /\ pc = "stims" => gi <= Len(grouped)
    /\ InJitter =>
          /\ gi < Len(grouped)
          /\ Len(fm.midpoints_ms) = Len(wj.freqs)
          /\ wj.left <= wj.right /\ wj.right < Len(wj.freqs)
    /\ pc = "done" =>
          /\ run_result.frame_stats = frame_stats
          /\ RetainedIdx = {} => run_result.frame_stats = SentinelStats
          /\ \A i \in 1..Len(Stims) :
                Len(QualifyingEdges(Stims[i].stim_id)) < 2 =>
                    /\ Stims[i].f_meas = None
                    /\ Stims[i].abs_err = None
                    /\ Stims[i].jitter_std = None

\* frames all before the cutoff and no toggle at all: the run returns, with
\* the sentinel and a placeholder
C12_Witness ==
    /\ pc = "done"
    /\ Frames # <<>>
    /\ RetainedIdx = {}
    /\ Toggles = <<>>
    /\ run_result.frame_stats = SentinelStats
    /\ Len(Stims) = 1
    /\ Stims[1].f_meas = None

\* C13: no step of a run changes its input, and a second run on the same
\* input returns a RunResult equal to the first: the same frame statistics,
\* the same StimResult fields, the same order
C13_RerunIdentical ==
    /\ [][/\ measurement' = measurement
          /\ warmup_s' = warmup_s
          /\ window_s' = window_s
          /\ epsilon' = epsilon]_vars
    /\ [][(pc' = "done" /\ run_result # None) => run_result' = run_result]_vars
    /\ [](pc = "done" => run_result.measurement = measurement)

\* the second run is at the end of its jitter loop; the first one returned
\* two results
C13_Witness ==
    /\ pc = "jitter_return"
    /\ run_result # None
    /\ Len(run_result.stims) = 2

-----------------------------------------------------------------------------
(* The percentile helper. *)

\* the order statistic of rank k (from 0) of values, by counting
OrderStat(values, k) ==
    CHOOSE x \in {values[i] : i \in 1..Len(values)} :
        /\ Cardinality({i \in 1..Len(values) : RLt(values[i], x)}) <= k
        /\ Cardinality({i \in 1..Len(values) : RLe(values[i], x)}) > k

\* r = (p / 100) * (n - 1)
RankOf(values, p) == Frac(p * (Len(values) - 1), 100)

RFloor(r) == r[1] \div r[2]
RCeil(r) == IF r[2] = 1 THEN r[1] ELSE (r[1] \div r[2]) + 1

\* interpolation between the order statistics at floor(r) and ceil(r)
Interpolated(values, p) ==
    LET r == RankOf(values, p)
        w == RSub(r, R(RFloor(r)))
    IN  RAdd(RMul(OrderStat(values, RFloor(r)), RSub(R(1), w)),
             RMul(OrderStat(values, RCeil(r)), w))

PercentileInDomain ==
    /\ pc = "percentile_done"
    /\ pcall.values # <<>>
    /\ 0 <= pcall.percentile /\ pcall.percentile <= 100

\* C15: for a non-empty list and p in [0,100] the helper returns the linear
\* interpolation between the order statistics at floor(r) and ceil(r),
\* r = (p/100)*(n-1), with weight r - floor(r); p = 0 gives the minimum,
\* p = 100 the maximum, and a single value is returned as it is
C15_PercentileInterpolation ==
    PercentileInDomain =>
        LET values == pcall.values
            p == pcall.percentile
        IN  /\ pcall.result = Interpolated(values, p)
            /\ p = 0 => pcall.result = OrderStat(values, 0)
            /\ p = 100 => pcall.result = OrderStat(values, Len(values) - 1)
            /\ Len(values) = 1 => pcall.result = values[1]

\* the median of 4, 2, 3, 1 is 2.5
C15_Witness ==
    /\ pc = "percentile_done"
    /\ pcall.values = <<R(4), R(2), R(3), R(1)>>
    /\ pcall.percentile = 50
    /\ pcall.result = Frac(5, 2)

=============================================================================
